---------------------------- MODULE Spec2Model ----------------------------
(***************************************************************************)
(* AsyncConnectionPool (src/db_functions.py): a fixed set of sqlite        *)
(* connections kept in an asyncio.Queue and guarded by an                  *)
(* asyncio.Semaphore.  Tasks are coroutines on one event loop: a step of   *)
(* the model is the code a coroutine runs between two suspensions.         *)
(*                                                                         *)
(* Suspension points of the pool's methods:                                *)
(*   semaphore.acquire()            (line 40)  when the semaphore is locked*)
(*   available_connections.get()    (line 41)  when the queue is empty     *)
(*   asyncio.sleep(5)               (line 51)  always                      *)
(*   available_connections.put()    (lines 26, 54)  when the queue is full *)
(* An await that does not have to wait does not yield to the event loop.   *)
(*                                                                         *)
(* asyncio.Semaphore is modelled as CPython implements it since 3.11:      *)
(* waiters queue first-in first-out, release() hands the permit to the     *)
(* oldest waiter whose future is not done, and acquire() queues behind     *)
(* any waiter already there.  asyncio.Queue.get()/put() re-test the queue  *)
(* when they are resumed, so a suspended getter (putter) runs on whenever  *)
(* the queue is non-empty (not full).                                      *)
(*                                                                         *)
(* Tasks release only the connection they hold (the calling convention of  *)
(* create_database, example_insert, example_update, example_select).       *)
(* initialize, acquire_connection and close_all_connections may be called  *)
(* in any order; create_connection and commit may raise.                   *)
(***************************************************************************)
EXTENDS Integers, Sequences, FiniteSets

\* Bounds of the model.
NumTasks == 3      \* concurrent callers of acquire_connection/release_connection
MaxCap == 2        \* max_connections ranges over 1..MaxCap
MaxHandles == 4    \* connections create_connection can return in one run
MaxSurplus == 1    \* permits above max_connections after which no further release
                   \* of a connection that is not on loan is explored

Task == 1..NumTasks
Handle == 1..MaxHandles             \* identities of the connections
None == 0                           \* "no connection"

VARIABLES
    max_connections,        \* self.max_connections
    available_connections,  \* self.available_connections: the queue's items, head first
    semaphore,              \* self.semaphore._value
    sem_waiters,            \* self.semaphore._waiters: tasks in semaphore.acquire(), oldest first
    waiting_requests,       \* self.waiting_requests
    pc,                     \* where each task is
    held,                   \* the local variable `connection` of each task's caller
    release_failed,         \* connections whose release_connection raised
    created,                \* number of connections create_connection has returned
    closed,                 \* connections on which close() has been called
    init_pc,                \* where the caller of initialize() is
    init_left,              \* iterations of initialize's loop still to run after the current one
    init_conn,              \* the local variable `connection` of a suspended initialize()
    lifecycle               \* the last lifecycle call that returned, and how

vars == << max_connections, available_connections, semaphore, sem_waiters,
           waiting_requests, pc, held, release_failed, created, closed,
           init_pc, init_left, init_conn, lifecycle >>

poolVars == << available_connections, semaphore, sem_waiters, waiting_requests >>

initVars == << created, init_pc, init_left, init_conn >>

----------------------------------------------------------------------------
\* Helpers: the library primitives as the pool uses them.

Range(s) == { s[i] : i \in DOMAIN s }

Max(a, b) == IF a >= b THEN a ELSE b

\* asyncio.Queue(max_connections): empty() and full()
QueueEmpty(q) == Len(q) = 0

\* (mutant) full() that lets the queue grow one item past its maxsize
QueueFullOffByOne(q) == Len(q) > max_connections

QueueFull(q) == Len(q) >= max_connections

\* (mutant) a queue that hands out its newest item (LifoQueue)
QueueNewest(q) == q[Len(q)]

\* Queue.get(): the item handed out, and the queue left behind
QueueHead(q) == Head(q)

\* (mutant) get() that reads the head and leaves it in the queue
QueueAfterGetKeepsHead(q) == q

QueueAfterGet(q) == Tail(q)

\* Queue.put(item)
QueueAfterPut(q, c) == Append(q, c)

\* (mutant) locked() that looks at the waiters only, not at the permits left
SemLockedIgnoresValue(value, waiters) == Len(waiters) > 0

\* asyncio.Semaphore.locked(): no permit left, or a task is already waiting
SemLocked(value, waiters) == value = 0 \/ Len(waiters) > 0

\* (mutant) _wake_up_next() that wakes the newest waiter instead of the oldest
NextWaiterNewest(waiters, p) ==
    LET idx == { i \in DOMAIN waiters : p[waiters[i]] = "acq_sem" }
    IN  IF idx = {} THEN None
        ELSE waiters[CHOOSE i \in idx : \A j \in idx : i >= j]

\* Semaphore._wake_up_next(): the first waiter whose future is not done yet
\* (a task at "acq_sem"), or None
NextWaiter(waiters, p) ==
    LET idx == { i \in DOMAIN waiters : p[waiters[i]] = "acq_sem" }
    IN  IF idx = {} THEN None
        ELSE waiters[CHOOSE i \in idx : \A j \in idx : i <= j]

\* waiters with task t removed (self._waiters.remove(fut))
WithoutWaiter(waiters, t) == SelectSeq(waiters, LAMBDA x : x # t)

\* line 37: self.waiting_requests += 1 when the queue is empty at the call
WaitingAtCall(w, q) == IF QueueEmpty(q) THEN w + 1 ELSE w

\* line 43: self.waiting_requests = max(0, self.waiting_requests - 1)
WaitingAfterGet(w) == Max(0, w - 1)

\* (mutant) a semaphore built with one permit too many
SemaphoreInitialOneMore(n) == n + 1

\* line 19: asyncio.Semaphore(max_connections)
SemaphoreInitial(n) == n

\* (mutant) a loop that stops one connection short
InitIterationsOneLess(n) == n - 1

\* line 24: range(self.max_connections)
InitIterations(n) == n

----------------------------------------------------------------------------
TypeOK ==
    /\ max_connections \in 1..MaxCap
    /\ available_connections \in Seq(Handle)
    /\ semaphore \in Nat
    /\ sem_waiters \in Seq(Task)
    /\ waiting_requests \in Nat
    /\ pc \in [Task -> {"idle", "acq_sem", "acq_woken", "acq_get", "holding",
                        "rel_sleep", "rel_put"}]
    /\ held \in [Task -> Handle \cup {None}]
    /\ release_failed \subseteq Handle
    /\ created \in 0..MaxHandles
    /\ closed \subseteq Handle
    /\ init_pc \in {"idle", "put"}
    /\ init_left \in 0..MaxCap
    /\ init_conn \in Handle \cup {None}
    /\ lifecycle \in {"Uninitialized", "Ready", "InitFailed", "Closed"}

\* __init__ (lines 16-20); max_connections is the constructor's argument
Init ==
    /\ max_connections \in 1..MaxCap
    /\ available_connections = << >>
    /\ semaphore = SemaphoreInitial(max_connections)
    /\ sem_waiters = << >>
    /\ waiting_requests = 0
    /\ pc = [t \in Task |-> "idle"]
    /\ held = [t \in Task |-> None]
    /\ release_failed = {}
    /\ created = 0
    /\ closed = {}
    /\ init_pc = "idle"
    /\ init_left = 0
    /\ init_conn = None
    /\ lifecycle = "Uninitialized"


----------------------------------------------------------------------------
\* Semaphore arithmetic (asyncio.Semaphore.acquire / release)
\* (mutant) acquire() that lets the caller through without taking a permit
SemAfterAcquireForgotten(value) == value

SemAfterAcquire(value) == value - 1

\* (mutant) release_connection that calls semaphore.release() twice
SemAfterReleaseTwice(value) == value + 2

\* (mutant) release_connection that forgets semaphore.release()
SemAfterReleaseForgotten(value) == value

SemAfterRelease(value) == value + 1

\* The connections create_connection returns as number first..last, in order
NewConnections(first, last) == [i \in 1..(last - first + 1) |-> first + i - 1]

\* sqlite3's Connection.commit() raises on a closed connection; on an open one
\* it may raise as well (the database is locked, the disk is full)
CommitRaises(c, commitOk) == c \in closed \/ ~commitOk

\* Lines 41-46 once the task owns a permit: take the head of the queue and
\* return it, or suspend in get() when the queue is empty.  w is
\* waiting_requests and p is pc, as the lines before left them.
TakeOrWait(t, w, p) ==
    IF ~QueueEmpty(available_connections)
    THEN /\ available_connections' = QueueAfterGet(available_connections)
         /\ held' = [held EXCEPT ![t] = QueueHead(available_connections)]
         /\ waiting_requests' = WaitingAfterGet(w)
         /\ pc' = [p EXCEPT ![t] = "holding"]
    ELSE /\ available_connections' = available_connections
         /\ held' = held
         /\ waiting_requests' = w
         /\ pc' = [p EXCEPT ![t] = "acq_get"]

\* acquire_connection is called (lines 34-46).  The task runs until it
\* returns a connection or suspends at the semaphore or at the queue.
AcquireConnection(t) ==
    /\ pc[t] = "idle"
    /\ LET w == WaitingAtCall(waiting_requests, available_connections)
       IN  IF ~SemLocked(semaphore, sem_waiters)
           THEN /\ semaphore' = SemAfterAcquire(semaphore)
                /\ sem_waiters' = sem_waiters
                /\ TakeOrWait(t, w, pc)
           ELSE /\ sem_waiters' = Append(sem_waiters, t)
                /\ pc' = [pc EXCEPT ![t] = "acq_sem"]
                /\ waiting_requests' = w
                /\ UNCHANGED << semaphore, available_connections, held >>
    /\ UNCHANGED << max_connections, release_failed, closed, lifecycle >>
    /\ UNCHANGED initVars

\* A task woken by Semaphore.release() runs again (line 40 returns): it leaves
\* the waiters, passes a spare permit on to the next waiter, and goes on to
\* line 41.
SemaphoreResume(t) ==
    /\ pc[t] = "acq_woken"
    /\ LET ws == WithoutWaiter(sem_waiters, t)
           n == IF semaphore > 0 THEN NextWaiter(ws, pc) ELSE None
           p == IF n = None THEN pc ELSE [pc EXCEPT ![n] = "acq_woken"]
       IN  /\ sem_waiters' = ws
           /\ semaphore' = IF n = None THEN semaphore ELSE SemAfterAcquire(semaphore)
           /\ TakeOrWait(t, waiting_requests, p)
    /\ UNCHANGED << max_connections, release_failed, closed, lifecycle >>
    /\ UNCHANGED initVars

\* A task suspended in available_connections.get() (line 41) runs again once
\* the queue holds an item.
QueueGetResume(t) ==
    /\ pc[t] = "acq_get"
    /\ ~QueueEmpty(available_connections)
    /\ TakeOrWait(t, waiting_requests, pc)
    /\ UNCHANGED << semaphore, sem_waiters >>
    /\ UNCHANGED << max_connections, release_failed, closed, lifecycle >>
    /\ UNCHANGED initVars

\* release_connection(connection) is called by the task that holds the
\* connection (lines 48-51): it suspends in asyncio.sleep(5).
ReleaseConnection(t) ==
    /\ pc[t] = "holding"
    /\ pc' = [pc EXCEPT ![t] = "rel_sleep"]
    /\ UNCHANGED << max_connections, held, release_failed, closed, lifecycle >>
    /\ UNCHANGED poolVars
    /\ UNCHANGED initVars

\* Lines 54-56 once put() does not have to wait: the connection joins the
\* queue and Semaphore.release() adds a permit, handing it to the first
\* waiter if there is one.
PutBack(t) ==
    LET n == NextWaiter(sem_waiters, pc)
        v == SemAfterRelease(semaphore)
    IN  /\ available_connections' = QueueAfterPut(available_connections, held[t])
        /\ semaphore' = IF n = None THEN v ELSE SemAfterAcquire(v)
        /\ pc' = IF n = None
                 THEN [pc EXCEPT ![t] = "idle"]
                 ELSE [pc EXCEPT ![t] = "idle", ![n] = "acq_woken"]
        /\ held' = [held EXCEPT ![t] = None]
        /\ UNCHANGED << sem_waiters, waiting_requests, release_failed >>

\* The sleep of line 51 is over: commit (line 53), then put and release
\* (lines 54-56).  A commit that raises ends release_connection there.
ReleaseAfterSleep(t) ==
    /\ pc[t] = "rel_sleep"
    /\ \E commitOk \in BOOLEAN :
         IF CommitRaises(held[t], commitOk)
         THEN /\ pc' = [pc EXCEPT ![t] = "idle"]
              /\ held' = [held EXCEPT ![t] = None]
              /\ release_failed' = release_failed \cup {held[t]}
              /\ UNCHANGED poolVars
         ELSE IF QueueFull(available_connections)
              THEN /\ pc' = [pc EXCEPT ![t] = "rel_put"]
                   /\ UNCHANGED << held, release_failed >>
                   /\ UNCHANGED poolVars
              ELSE PutBack(t)
    /\ UNCHANGED << max_connections, closed, lifecycle >>
    /\ UNCHANGED initVars

\* A release_connection suspended in put() (line 54) runs again once the
\* queue has room.
ReleasePutResume(t) ==
    /\ pc[t] = "rel_put"
    /\ ~QueueFull(available_connections)
    /\ PutBack(t)
    /\ UNCHANGED << max_connections, closed, lifecycle >>
    /\ UNCHANGED initVars

\* The loop of initialize (lines 24-27) with n iterations to go and queue q:
\* s create_connection calls succeed; the next one, if any, raises.  The loop
\* suspends in put() as soon as the queue is full.
InitLoop(n, q) ==
    \E s \in 0..n :
        LET room == max_connections - Len(q)
        IN  IF s <= room
            THEN /\ available_connections' = q \o NewConnections(created + 1, created + s)
                 /\ created' = created + s
                 /\ init_pc' = "idle"
                 /\ init_left' = 0
                 /\ init_conn' = None
                 /\ lifecycle' = IF s = n THEN "Ready" ELSE "InitFailed"
            ELSE /\ available_connections' = q \o NewConnections(created + 1, created + room)
                 /\ created' = created + room + 1
                 /\ init_pc' = "put"
                 /\ init_left' = n - room - 1
                 /\ init_conn' = created + room + 1
                 /\ lifecycle' = lifecycle

\* initialize() is called (lines 22-27).  The call is modelled while enough
\* unused connection identities are left for its loop.
Initialize ==
    /\ init_pc = "idle"
    /\ created + InitIterations(max_connections) <= MaxHandles
    /\ InitLoop(InitIterations(max_connections), available_connections)
    /\ UNCHANGED << max_connections, semaphore, sem_waiters, waiting_requests,
                    pc, held, release_failed, closed >>

\* An initialize() suspended in put() (line 26) runs again once the queue has
\* room.
InitializePutResume ==
    /\ init_pc = "put"
    /\ ~QueueFull(available_connections)
    /\ InitLoop(init_left, QueueAfterPut(available_connections, init_conn))
    /\ UNCHANGED << max_connections, semaphore, sem_waiters, waiting_requests,
                    pc, held, release_failed, closed >>

\* (mutant) close_all_connections that closes the queued connections without
\* taking them out of the queue
CloseAllConnectionsNoDrain ==
    /\ closed' = closed \cup Range(available_connections)
    /\ lifecycle' = "Closed"
    /\ UNCHANGED << max_connections, available_connections, semaphore, sem_waiters,
                    waiting_requests, pc, held, release_failed >>
    /\ UNCHANGED initVars

\* close_all_connections() (lines 58-63): every get() finds an item, so the
\* loop runs to its end without suspending.
CloseAllConnections ==
    /\ closed' = closed \cup Range(available_connections)
    /\ available_connections' = << >>
    /\ lifecycle' = "Closed"
    /\ UNCHANGED << max_connections, semaphore, sem_waiters, waiting_requests,
                    pc, held, release_failed >>
    /\ UNCHANGED initVars

\* What the event loop runs for task t without a new call from outside the
\* pool being needed: resumptions, and the release every holder owes.
TaskProgress(t) ==
    \/ SemaphoreResume(t)
    \/ QueueGetResume(t)
    \/ ReleaseConnection(t)
    \/ ReleaseAfterSleep(t)
    \/ ReleasePutResume(t)

Next ==
    \/ \E t \in Task : AcquireConnection(t)
    \/ \E t \in Task : TaskProgress(t)
    \/ Initialize
    \/ InitializePutResume
    \/ CloseAllConnections

Spec == Init /\ [][Next]_vars

\* The event loop runs every task that is ready to run, and every holder
\* goes on to release.
FairSpec ==
    /\ Spec
    /\ \A t \in Task : WF_vars(TaskProgress(t))
    /\ WF_vars(InitializePutResume)

\* release_connection(h) is called (lines 48-51) by a task that does not hold
\* h, for a connection that is not on loan: no task holds it and no release
\* of it has raised.  The code has no check, so the call runs like any other.
\* Explored on a pool that initialize has filled and nothing has closed, and
\* while the semaphore holds fewer than MaxSurplus permits too many.
ReleaseNotOnLoan(t, h) ==
    /\ pc[t] = "idle"
    /\ lifecycle = "Ready" /\ created = max_connections /\ closed = {}
    /\ semaphore < max_connections + MaxSurplus
    /\ h \in 1..created
    /\ h # init_conn
    /\ \A u \in Task : held[u] # h
    /\ h \notin release_failed
    /\ held' = [held EXCEPT ![t] = h]
    /\ pc' = [pc EXCEPT ![t] = "rel_sleep"]
    /\ UNCHANGED << max_connections, release_failed, closed, lifecycle >>
    /\ UNCHANGED poolVars
    /\ UNCHANGED initVars

MisuseNext ==
    \/ Next
    \/ \E t \in Task, h \in Handle : ReleaseNotOnLoan(t, h)

\* The pool with callers that also release connections they do not hold
MisuseSpec == Init /\ [][MisuseNext]_vars

----------------------------------------------------------------------------
\* Vocabulary of the properties

\* The tasks whose caller holds connection h
Holders(h) == { t \in Task : held[t] = h }

\* Tasks that own a connection: acquire_connection has returned it and their
\* release_connection has not yet put it back
Borrowers == { t \in Task : held[t] # None }

\* Connections on loan: returned by acquire_connection and not put back by a
\* release_connection (one that raised never puts its connection back)
OnLoan == Cardinality(Borrowers) + Cardinality(release_failed)

\* Tasks that own a permit of the semaphore
PermitOwners ==
    { t \in Task : pc[t] \in {"acq_woken", "acq_get", "holding", "rel_sleep", "rel_put"} }

\* Tasks suspended inside acquire_connection
Blocked(t) == pc[t] \in {"acq_sem", "acq_woken", "acq_get"}

\* No pool operation is in flight and every connection acquired has been
\* put back by a release_connection that completed
Quiescent ==
    /\ \A t \in Task : pc[t] = "idle"
    /\ init_pc = "idle"
    /\ release_failed = {}

\* The state __init__ leaves
FreshlyConstructed ==
    /\ lifecycle = "Uninitialized"
    /\ created = 0
    /\ init_pc = "idle"
    /\ available_connections = << >>
    /\ sem_waiters = << >>
    /\ waiting_requests = 0
    /\ closed = {}
    /\ \A t \in Task : pc[t] = "idle" /\ held[t] = None

\* C1: no connection is held by two tasks at once, and a connection that is
\* held (its release_connection may be in its delay, or waiting to put it
\* back) is not in the idle queue, so no acquire_connection can return it.
C1_Exclusivity ==
    \A h \in Handle :
        /\ Cardinality(Holders(h)) <= 1
        /\ Holders(h) # {} => h \notin Range(available_connections)

\* C1 witness: a release is inside its delay while another task has a
\* connection and a third waits in acquire_connection.
C1_Witness ==
    \E t, u, v \in Task :
        /\ pc[t] = "rel_sleep"
        /\ pc[u] = "holding"
        /\ pc[v] = "acq_sem"

\* C2: the number of connections on loan never exceeds max_connections.
C2_Capacity == OnLoan <= max_connections

\* C2 witness: max_connections >= 2 connections are on loan and a task waits
\* for a permit.
C2_Witness ==
    /\ max_connections >= 2
    /\ Cardinality(Borrowers) = max_connections
    /\ \E t \in Task : pc[t] = "acq_sem"

\* The pool in the state Ready: one successful initialize has filled it with
\* its max_connections connections, no other initialize has added any, and
\* close_all_connections has not shut it down
PoolReady ==
    /\ lifecycle = "Ready"
    /\ created = max_connections
    /\ closed = {}

\* C3: in every quiescent state of a ready pool (initialized, not shut down,
\* every acquire matched by a completed release), the idle queue holds
\* max_connections distinct connections, every permit is available, and the
\* idle connections are exactly those initialize created.
C3_Conservation ==
    (PoolReady /\ Quiescent) =>
        /\ Len(available_connections) = max_connections
        /\ Cardinality(Range(available_connections)) = max_connections
        /\ semaphore = max_connections
        /\ sem_waiters = << >>
        /\ Range(available_connections) = 1..created

\* C3 witness: a quiescent ready pool whose queue order shows that acquire /
\* release cycles have run.
C3_Witness ==
    /\ PoolReady
    /\ Quiescent
    /\ max_connections = 2
    /\ available_connections = << 2, 1 >>

\* C4: once a release_connection has raised, its connection is neither
\* dropped (it is idle or still held) nor duplicated, and its permit is not
\* lost: permits available plus permits owned is max_connections.
C4_FailedReleaseKeepsPoolConsistent ==
    release_failed # {} =>
        /\ \A h \in release_failed :
               h \in Range(available_connections) \/ Holders(h) # {}
        /\ semaphore + Cardinality(PermitOwners) = max_connections

\* C5: under fair scheduling, with every holder releasing, a task blocked in
\* acquire_connection on an initialized pool eventually gets a connection
\* (unless the pool is shut down or initialized again first).
C5_BlockedAcquireReturns ==
    \A t \in Task :
        [] ((Blocked(t) /\ PoolReady) => <> (pc[t] = "holding" \/ ~PoolReady))

\* C6: with max_connections = 1, when an acquire_connection returns, no other
\* task holds the connection or is still inside its release_connection.
C6_BlockingCorrectness ==
    [][ max_connections = 1 =>
          \A b \in Task :
              (pc[b] # "holding" /\ pc'[b] = "holding") =>
                  \A a \in Task \ {b} :
                      /\ pc[a] \notin {"holding", "rel_sleep", "rel_put"}
                      /\ pc'[a] \notin {"holding", "rel_sleep", "rel_put"} ]_vars

\* C6 witness: max_connections = 1, the holder's release has completed and
\* woken a task that was blocked in acquire_connection.
C6_Witness ==
    /\ max_connections = 1
    /\ \E b \in Task : pc[b] = "acq_woken"

\* C7: acquire_connection on a pool that was never initialized fails at the
\* call: the task is not left blocked, no permit is consumed, the pool's
\* state is unchanged.
C7_AcquireBeforeInitializeFails ==
    [][ \A t \in Task :
          (lifecycle = "Uninitialized" /\ init_pc = "idle" /\ created = 0
             /\ AcquireConnection(t))
          => (pc'[t] = "idle" /\ UNCHANGED poolVars) ]_vars

\* C8: acquire_connection on a pool that close_all_connections has shut down
\* fails at the call: the task is not left blocked, it gets no connection,
\* the pool's state is unchanged.
C8_AcquireAfterShutdownFails ==
    [][ \A t \in Task :
          (lifecycle = "Closed" /\ AcquireConnection(t))
          => (pc'[t] = "idle" /\ held'[t] = None /\ UNCHANGED poolVars) ]_vars

\* C9: when initialize fails, every connection it had created is closed and
\* the idle queue is left empty.
C9_FailedInitializeLeavesNoPool ==
    [][ (lifecycle' = "InitFailed" /\ created' # created) =>
          /\ (created + 1)..created' \subseteq closed'
          /\ available_connections' = << >> ]_vars

\* C10: initialize returning successfully on a freshly constructed pool has
\* created exactly max_connections distinct connections, all of them idle,
\* with max_connections permits available and nothing on loan.
C10_InitializePostcondition ==
    [][ (FreshlyConstructed /\ lifecycle' = "Ready") =>
          /\ created' = max_connections
          /\ Len(available_connections') = max_connections
          /\ Range(available_connections') = 1..max_connections
          /\ semaphore' = max_connections
          /\ OnLoan' = 0 ]_vars

\* C10 witness: the state right after that initialize.
C10_Witness ==
    /\ lifecycle = "Ready"
    /\ created = max_connections
    /\ available_connections = NewConnections(1, max_connections)
    /\ semaphore = max_connections
    /\ \A t \in Task : pc[t] = "idle"
    /\ closed = {}
    /\ init_pc = "idle"

\* Number of times connection h occurs in queue q
Occurrences(q, h) == Cardinality({ i \in DOMAIN q : q[i] = h })

\* Tasks that Semaphore.release() has handed a permit and that have not run
\* again yet
Woken == { t \in Task : pc[t] = "acq_woken" }

\* Task t's release_connection completes in this step (lines 54-56 run)
ReleaseCompletes(t) ==
    /\ pc[t] \in {"rel_sleep", "rel_put"}
    /\ pc'[t] = "idle"
    /\ release_failed' = release_failed

\* C11: a release_connection(h) that completes appends h to the idle queue
\* once, returns one permit and so wakes at most one waiting acquire; no
\* connection is twice in the idle queue and the released one is in it.
C11_ExactlyOnceHandoff ==
    [][ \A t \in Task :
          ReleaseCompletes(t) =>
              /\ available_connections' = Append(available_connections, held[t])
              /\ Occurrences(available_connections', held[t]) = 1
              /\ \A h \in Handle : Occurrences(available_connections', h) <= 1
              /\ semaphore' + Cardinality(Woken') = semaphore + Cardinality(Woken) + 1
              /\ Cardinality(Woken' \ Woken) <= 1 ]_vars

\* C11 witness: a release has woken one of two waiting acquires; the other
\* still waits.
C11_Witness ==
    \E t, u \in Task :
        /\ pc[t] = "acq_woken"
        /\ pc[u] = "acq_sem"
        /\ Len(available_connections) = 1

\* C12: the idle queue never holds more than max_connections connections.
C12_IdleSizeBounded ==
    /\ Len(available_connections) >= 0
    /\ Len(available_connections) <= max_connections

\* C12 witness: the queue is full while all tasks are inside acquire / release
\* cycles and one release waits for room.
C12_Witness ==
    /\ Len(available_connections) = max_connections
    /\ \A t \in Task : pc[t] # "idle"
    /\ \E t \in Task : pc[t] = "rel_put"

\* C13: close_all_connections called again on a pool it has already shut
\* down closes no connection that is already closed, and on the empty queue
\* the first call left it changes nothing.
C13_IdempotentShutdown ==
    [][ (lifecycle = "Closed" /\ CloseAllConnections) =>
          /\ Range(available_connections) \cap closed = {}
          /\ QueueEmpty(available_connections) =>
                 /\ closed' = closed
                 /\ UNCHANGED poolVars
                 /\ UNCHANGED << pc, held, lifecycle >> ]_vars

\* C13 witness: a shut-down pool whose first close_all_connections closed
\* connections and left the queue empty.
C13_Witness ==
    /\ lifecycle = "Closed"
    /\ closed # {}
    /\ QueueEmpty(available_connections)
    /\ \A t \in Task : pc[t] = "idle"

\* C14: close_all_connections, whatever is on loan, closes exactly the
\* connections in the idle queue, leaves the queue empty, and leaves every
\* connection on loan open and with its holder.
C14_ShutdownSkipsLoans ==
    [][ CloseAllConnections =>
          /\ closed' \ closed = Range(available_connections)
          /\ available_connections' = << >>
          /\ held' = held /\ pc' = pc
          /\ \A t \in Borrowers : held[t] \notin closed' ]_vars

\* C14 witness: a pool shut down while a connection was on loan and another
\* was idle.
C14_Witness ==
    /\ lifecycle = "Closed"
    /\ Borrowers # {}
    /\ closed # {}
    /\ QueueEmpty(available_connections)

\* C15: under fair scheduling no task stays blocked in acquire_connection on
\* a ready pool for ever while other tasks go on getting connections.
C15_NoStarvation ==
    \A t \in Task :
        ~ ( /\ <>[] (Blocked(t) /\ PoolReady)
            /\ []<> (\E u \in Task \ {t} : pc[u] = "holding") )

\* C15 witness: on a ready pool a task waits for a permit behind an older
\* waiter while another task holds the connection.
C15_Witness ==
    /\ PoolReady
    /\ Len(sem_waiters) >= 2
    /\ \E t, u \in Task : pc[t] = "acq_sem" /\ pc[u] = "holding"

\* Connections that exist: created and not closed
Existing == (1..created) \ closed

\* C17: the number of connections that exist never exceeds max_connections.
C17_ExistingBounded == Cardinality(Existing) <= max_connections

\* Permits and idle connections in step, as the semaphore represents it: a
\* permit that release() handed to a woken waiter is out of _value before the
\* waiter takes its connection.  No task is suspended in the queue's get() or
\* put(), and no initialize is.
Coupled ==
    /\ semaphore + Cardinality(Woken) = Len(available_connections)
    /\ \A t \in Task : pc[t] \notin {"acq_get", "rel_put"}
    /\ init_pc = "idle"

\* The coupling as the claim words it: semaphore._value is the queue's size
CoupledByValue ==
    /\ semaphore = Len(available_connections)
    /\ \A t \in Task : pc[t] \notin {"acq_get", "rel_put"}
    /\ init_pc = "idle"

\* waiting_requests is the number of tasks blocked inside acquire_connection
Counted == waiting_requests = Cardinality({ t \in Task : Blocked(t) })

\* C16: on a ready pool waiting_requests stays equal to the number of tasks
\* blocked inside acquire_connection: right after initialize on a fresh pool,
\* and after every step from a state of normal use in which it is.
C16_WaitingCountsBlocked ==
    [][ ((FreshlyConstructed \/ (PoolReady /\ Coupled /\ Counted)) /\ PoolReady')
          => Counted' ]_vars

\* C18 as amended: from the return of initialize on a fresh pool on, as long
\* as the pool is ready, the idle queue's size equals the semaphore's value
\* plus the permits handed to woken waiters, and no task is suspended in
\* get() or put(): tasks suspend only at the semaphore and in the delay.
C18_PermitIdleCoupling ==
    [][ ((FreshlyConstructed \/ (PoolReady /\ Coupled)) /\ PoolReady') => Coupled' ]_vars

\* C18 witness: a ready pool in which a release has put a connection back and
\* handed its permit to a woken waiter.
C18_Witness ==
    /\ PoolReady
    /\ Coupled
    /\ Woken # {}
    /\ Len(available_connections) = 1

\* C18 as claimed: the semaphore's value equals the idle queue's size at
\* every suspension point of a ready pool.
C18_PermitsEqualIdleSize ==
    [][ ((FreshlyConstructed \/ (PoolReady /\ CoupledByValue)) /\ PoolReady')
          => CoupledByValue' ]_vars

\* q is p with items added at its end
Extends(q, p) == Len(q) >= Len(p) /\ SubSeq(q, 1, Len(p)) = p

\* C20: connections leave the idle queue in the order they entered it: an
\* acquire_connection that returns takes the queue's oldest item and leaves
\* the others in order, and every other step only adds at the end.
C20_FifoHandout ==
    [][ /\ \A t \in Task :
              (pc[t] # "holding" /\ pc'[t] = "holding") =>
                  /\ held'[t] = Head(available_connections)
                  /\ available_connections' = Tail(available_connections)
        /\ (\A t \in Task : pc'[t] = "holding" => pc[t] = "holding") =>
              \/ Extends(available_connections', available_connections)
              \/ CloseAllConnections ]_vars

\* C20 witness: on a ready pool connection 2 was released before connection
\* 1 and both are idle, 2 at the head.
C20_Witness ==
    /\ PoolReady
    /\ semaphore = 2
    /\ Head(available_connections) = 2
    /\ available_connections[2] = 1

\* C19: a release_connection of a connection that is not on loan is
\* rejected: no connection is ever twice in the idle queue and the
\* semaphore's value never exceeds max_connections.
C19_ReleaseNotOnLoanRejected ==
    /\ \A h \in Handle : Occurrences(available_connections, h) <= 1
    /\ semaphore <= max_connections

=============================================================================
